---------------------------- MODULE Spec2Model ----------------------------
(***************************************************************************)
(* Vulkan compute-graph slice: the int8x4 staging converters               *)
(* (Int8x4Staging.cpp, int8x4_buffer_to_nchw.glsl), the where operator     *)
(* (Where.cpp, where.glsl) and the part of ComputeGraph that schedules     *)
(* them.                                                                   *)
(*                                                                         *)
(* Tensor sizes are kept in WHCN order, as the shaders' metadata holds     *)
(* them: sizes[1] = W (innermost), sizes[2] = H, sizes[3] = C,             *)
(* sizes[4] = N.  Buffers are functions over 0..len-1.  A 32-bit storage   *)
(* unit is the tuple of its four bytes, least significant first, so the    *)
(* width of an int is exactly 32 bits.                                     *)
(***************************************************************************)
EXTENDS Integers, Sequences, FiniteSets, TLC

VARIABLES
  \* ---- int8x4 staging round trip (one tensor, one upload, one download)
  inp_sizes,    \* WHCN sizes of the packed tensor (BufferMetadata inp.sizes[0])
  inp_layout,   \* specialization constant inp_layout: "4W" or "4C"
  nchw_in,      \* host staging buffer that is uploaded (int32 units)
  t_inp,        \* the packed int8x4 device buffer (int32 units)
  t_clean,      \* t_inp as the upload left it (history variable)
  nchw_out,     \* staging buffer the download writes (int32 units)
  cphase,       \* "upload", "packed", "download", "done"
  cpending,     \* invocation ids of the download grid that have not run yet
  cwrites,      \* invocation id -> addresses it wrote (history variable)
  creads        \* invocation id -> addresses it read (history variable)

codecVars == <<inp_sizes, inp_layout, nchw_in, t_inp, t_clean, nchw_out,
               cphase, cpending, cwrites, creads>>

VARIABLES
  \* ---- one dispatch of the where kernel
  wstorage,     \* "buffer" or "texture": the kernel variant
  wpacked_dim,  \* packed dimension of the textures (WHCN index 1..3)
  out_sizes,    \* outp.sizes
  cond_sizes,   \* condp.sizes
  self_sizes,   \* selfp.sizes
  other_sizes,  \* otherp.sizes
  cond_data,    \* logical elements of condition, in NCHW order
  self_data,    \* logical elements of self, in NCHW order
  other_data,   \* logical elements of other, in NCHW order
  t_condition,  \* device storage of condition (buffer or texture)
  t_self,       \* device storage of self
  t_other,      \* device storage of other
  t_out,        \* device storage of out
  wphase,       \* "idle", "dispatch", "done"
  wpending,     \* invocation ids (gl_GlobalInvocationID) that have not run yet
  wwrites,      \* invocation id -> addresses it wrote (history variable)
  wreads        \* invocation id -> addresses it read (history variable)

whereVars == <<wstorage, wpacked_dim, out_sizes, cond_sizes, self_sizes, other_sizes,
               cond_data, self_data, other_data, t_condition, t_self, t_other, t_out,
               wphase, wpending, wwrites, wreads>>

VARIABLES
  \* ---- the compute graph: construction and execution
  g_sizes,        \* ValueRef -> current sizes of the tensor (WHCN)
  prepack_nodes,  \* graph.prepack_nodes(): sequence of PrepackNode
  execute_nodes,  \* graph.execute_nodes(): sequence of DynamicDispatchNode
  gerror,         \* the exception the last builder call threw, or NoError
  gphase,         \* "off", "build", "idle", "executing"
  dirty,          \* an input was resized since the last execution
  cur_node,       \* index in execute_nodes of the node being processed
  nphase,         \* state of that node: "Idle", "Dispatchable", "Submitted"
  did_resize,     \* the node's resize callback ran in this execution
  prepack_log,    \* submissions of prepack nodes so far (history variable)
  exec_log,       \* ids of the execute nodes submitted in this execution (history)
  exec_started,   \* an execute node has been submitted (history variable)
  reexecuted      \* a second execution has begun (history variable)

graphVars == <<g_sizes, prepack_nodes, execute_nodes, gerror, gphase, dirty, cur_node,
               nphase, did_resize, prepack_log, exec_log, exec_started, reexecuted>>

-----------------------------------------------------------------------------
(* Bounds of the model *)

\* largest logical element count of a modelled tensor
MaxNumel == 5
\* most nodes a modelled graph holds (prepack and execute nodes together)
MaxNodes == 3
\* invocations a dispatch grid holds beyond the ones in bounds
OverProvision == 1

(* Program constants *)

\* int8 values per int32 storage unit
PackFactor == 4
\* highest supported tensor rank
MaxRank == 4

\* byte values the staging data is drawn from: zero, a small value, and
\* values with the high bit set; one staging buffer holds the bytes of one pair
ByteVals == {0, 1, 128, 255}
BytePairs == {{0, 255}, {1, 128}}
\* byte values that another writer may leave in padding lanes
PadVals == {85}
\* what an unwritten byte of device or staging memory holds in the model
Unwritten == {170}

-----------------------------------------------------------------------------
(* 32-bit integers as four bytes, and the operators the shaders use on them *)

Zero32 == <<0, 0, 0, 0>>

\* int(v) for a byte value v
FromByte(v) == <<v, 0, 0, 0>>

RECURSIVE BitOr8(_, _)
BitOr8(a, b) ==
  IF a = 0 THEN b
  ELSE IF b = 0 THEN a
  ELSE (IF a % 2 = 1 \/ b % 2 = 1 THEN 1 ELSE 0) + 2 * BitOr8(a \div 2, b \div 2)

\* x | y
BitOr32(x, y) == [k \in 1..4 |-> BitOr8(x[k], y[k])]

\* x >> s for a signed int x and s a multiple of 8: arithmetic shift
ShiftRight(x, s) ==
  LET k == s \div 8
      fill == IF x[4] >= 128 THEN 255 ELSE 0
  IN [i \in 1..4 |-> IF i + k <= 4 THEN x[i + k] ELSE fill]

\* x << s for s a multiple of 8: the bits shifted out are lost
ShiftLeft(x, s) ==
  LET k == s \div 8
  IN [i \in 1..4 |-> IF i - k >= 1 THEN x[i - k] ELSE 0]

\* x & 0xFF
And0xFF(x) == <<x[1], 0, 0, 0>>

-----------------------------------------------------------------------------
(* Tensor metadata *)

Max(a, b) == IF a >= b THEN a ELSE b
Min(a, b) == IF a <= b THEN a ELSE b

numel_of(sizes) == sizes[1] * sizes[2] * sizes[3] * sizes[4]

\* rank of a WHCN size tuple: trailing (outer) dimensions of size 1 are absent
dim_of_sizes(sizes) ==
  IF sizes[4] > 1 THEN 4 ELSE IF sizes[3] > 1 THEN 3 ELSE IF sizes[2] > 1 THEN 2 ELSE 1

align_up_4(n) == ((n + 3) \div 4) * 4

\* packed dimension of a packed int8 layout, as a WHCN index (1 = W, 3 = C)
packed_dim_of(layout) == IF layout = "4W" THEN 1 ELSE 3

\* sizes after rounding the packed dimension up to a multiple of 4
padded_sizes_of(sizes, layout) ==
  [d \in 1..4 |-> IF d = packed_dim_of(layout) THEN align_up_4(sizes[d]) ELSE sizes[d]]

padded_numel_of(sizes, layout) == numel_of(padded_sizes_of(sizes, layout))

\* WHCN size tuples with at most MaxNumel logical elements
Shapes == {s \in [1..4 -> 1..MaxNumel] : numel_of(s) <= MaxNumel}

Layouts == {"4W", "4C"}

-----------------------------------------------------------------------------
(* Indexing of packed int8x4 buffers (indexing.glslh) *)

\* Linear element index of the logical coordinate tidx = <<w, h, c, n>> in the
\* packed buffer: element e lives in int32 slot e / 4 at bit offset (e % 4) * 8.
\* "4W" packs four consecutive width values, "4C" four consecutive channels.
tensor4d_idx_to_buf_idx(sizes, tidx, layout) ==
  LET W == sizes[1]
      H == sizes[2]
      C == sizes[3]
      w == tidx[1]
      h == tidx[2]
      c == tidx[3]
      n == tidx[4]
  IN IF layout = "4W"
     THEN w + align_up_4(W) * (h + H * (c + C * n))
     ELSE (w + W * (h + H * ((c \div 4) + (align_up_4(C) \div 4) * n))) * 4 + (c % 4)

\* The coordinate whose element index is e (the inverse of the above on the
\* padded tensor); a coordinate beyond sizes in the packed dimension is padding.
buf_idx_to_tensor4d_idx(sizes, e, layout) ==
  LET W == sizes[1]
      H == sizes[2]
      C == sizes[3]
      W4 == align_up_4(W)
      C4 == align_up_4(C) \div 4
      b == e \div 4
  IN IF layout = "4W"
     THEN <<e % W4, (e \div W4) % H, (e \div (W4 * H)) % C, e \div (W4 * H * C)>>
     ELSE <<b % W, (b \div W) % H, ((b \div (W * H)) % C4) * 4 + (e % 4),
            b \div (W * H * C4)>>

\* out_of_bounds for a Tensor4D coordinate
tidx_in_bounds(sizes, tidx) == \A d \in 1..4 : tidx[d] < sizes[d]

\* element indices of the packed buffer that hold a logical element
LogicalLanes(sizes, layout) ==
  {e \in 0..(padded_numel_of(sizes, layout) - 1) :
     tidx_in_bounds(sizes, buf_idx_to_tensor4d_idx(sizes, e, layout))}

\* byte k (0-based) of a buffer of int32 units
ByteAt(buf, k) == buf[k \div 4][(k % 4) + 1]

-----------------------------------------------------------------------------
(* nchw_to_int8x4_buffer: one invocation per packed int32 slot *)

RECURSIVE pack_lanes(_, _, _, _, _, _)
pack_lanes(staging, sizes, layout, texel_idx, j, acc) ==
  IF j >= 4 THEN acc
  ELSE LET tidx == buf_idx_to_tensor4d_idx(sizes, texel_idx * 4 + j, layout)
           nchw_idx == tidx[1] + sizes[1] * (tidx[2] + sizes[2] * (tidx[3] + sizes[3] * tidx[4]))
           val == And0xFF(ShiftRight(staging[nchw_idx \div 4], (nchw_idx % 4) * 8))
       IN IF tidx_in_bounds(sizes, tidx)
          THEN pack_lanes(staging, sizes, layout, texel_idx, j + 1,
                          BitOr32(acc, ShiftLeft(val, j * 8)))
          ELSE pack_lanes(staging, sizes, layout, texel_idx, j + 1, acc)

\* the int32 that invocation texel_idx stores in slot texel_idx
nchw_to_int8x4_buffer_main(staging, sizes, layout, texel_idx) ==
  pack_lanes(staging, sizes, layout, texel_idx, 0, Zero32)

\* global work group size of the upload: one thread per packed int32
\* staging_to_int8x4_buffer_global_wg_size counting numel, not padded_numel
staging_to_int8x4_buffer_global_wg_size_numel(sizes, layout) ==
  numel_of(sizes) \div 4

staging_to_int8x4_buffer_global_wg_size(sizes, layout) ==
  padded_numel_of(sizes, layout) \div 4

-----------------------------------------------------------------------------
(* int8x4_buffer_to_nchw: one invocation per output int32 *)

\* global work group size of the download: one thread per output int32
int8x4_buffer_to_staging_global_wg_size(sizes) == (numel_of(sizes) + 3) \div 4

\* unpack_lane without the & 0xFF mask
unpack_lane_nomask(buf, sizes, layout, nchw_idx, j) ==
  LET W == sizes[1]
      H == sizes[2]
      C == sizes[3]
      elem_buf_idx ==
        tensor4d_idx_to_buf_idx(
          sizes,
          <<nchw_idx % W, (nchw_idx \div W) % H, (nchw_idx \div (W * H)) % C,
            nchw_idx \div (W * H * C)>>,
          layout)
  IN ShiftLeft(ShiftRight(buf[elem_buf_idx \div 4], (elem_buf_idx % 4) * 8), j * 8)

\* unpack_lane taking byte j of the slot instead of byte elem_buf_idx % 4
unpack_lane_bylane(buf, sizes, layout, nchw_idx, j) ==
  LET W == sizes[1]
      H == sizes[2]
      C == sizes[3]
      elem_buf_idx ==
        tensor4d_idx_to_buf_idx(
          sizes,
          <<nchw_idx % W, (nchw_idx \div W) % H, (nchw_idx \div (W * H)) % C,
            nchw_idx \div (W * H * C)>>,
          layout)
  IN ShiftLeft(And0xFF(ShiftRight(buf[elem_buf_idx \div 4], j * 8)), j * 8)

\* the loop body for lane j: the packed element of NCHW index nchw_idx,
\* moved to byte j
unpack_lane(buf, sizes, layout, nchw_idx, j) ==
  LET W == sizes[1]
      H == sizes[2]
      C == sizes[3]
      w == nchw_idx % W
      h == (nchw_idx \div W) % H
      c == (nchw_idx \div (W * H)) % C
      n == nchw_idx \div (W * H * C)
      elem_buf_idx == tensor4d_idx_to_buf_idx(sizes, <<w, h, c, n>>, layout)
      int8_val == And0xFF(ShiftRight(buf[elem_buf_idx \div 4], (elem_buf_idx % 4) * 8))
  IN ShiftLeft(int8_val, j * 8)

\* the packed slot that lane j of invocation out_int32_idx reads
unpack_slot(sizes, layout, nchw_idx) ==
  LET W == sizes[1]
      H == sizes[2]
      C == sizes[3]
  IN tensor4d_idx_to_buf_idx(
       sizes,
       <<nchw_idx % W, (nchw_idx \div W) % H, (nchw_idx \div (W * H)) % C,
         nchw_idx \div (W * H * C)>>,
       layout) \div 4

RECURSIVE unpack_loop(_, _, _, _, _, _)
unpack_loop(buf, sizes, layout, out_int32_idx, j, output_int32) ==
  IF j >= 4 THEN output_int32
  ELSE LET nchw_idx == out_int32_idx * 4 + j
       IN IF nchw_idx >= numel_of(sizes)
          THEN output_int32
          ELSE unpack_loop(buf, sizes, layout, out_int32_idx, j + 1,
                           BitOr32(output_int32, unpack_lane(buf, sizes, layout, nchw_idx, j)))

\* int8x4_buffer_to_nchw_main with the bounds check off by one (> for >=)
int8x4_buffer_to_nchw_main_offbyone(buf, sizes, layout, out_int32_idx) ==
  IF out_int32_idx > (numel_of(sizes) + 3) \div 4
  THEN {}
  ELSE {<<out_int32_idx, unpack_loop(buf, sizes, layout, out_int32_idx, 0, Zero32)>>}

\* what invocation out_int32_idx does: the set of <<address, value>> stores to
\* nchw_out (empty when the invocation returns at the bounds check)
int8x4_buffer_to_nchw_main(buf, sizes, layout, out_int32_idx) ==
  LET total_numel == sizes[1] * sizes[2] * sizes[3] * sizes[4]
      num_out_int32s == (total_numel + 3) \div 4
  IN IF out_int32_idx >= num_out_int32s
     THEN {}
     ELSE {<<out_int32_idx, unpack_loop(buf, sizes, layout, out_int32_idx, 0, Zero32)>>}

\* the t_inp slots invocation out_int32_idx loads
int8x4_buffer_to_nchw_reads(sizes, layout, out_int32_idx) ==
  IF out_int32_idx >= (numel_of(sizes) + 3) \div 4
  THEN {}
  ELSE {unpack_slot(sizes, layout, out_int32_idx * 4 + j) :
          j \in {jj \in 0..3 : out_int32_idx * 4 + jj < numel_of(sizes)}}

\* a buffer after a set of stores
Store(buf, writes) ==
  [a \in DOMAIN buf |->
     IF \E wr \in writes : wr[1] = a
     THEN (CHOOSE wr \in writes : wr[1] = a)[2]
     ELSE buf[a]]

-----------------------------------------------------------------------------
(* Indexing of contiguous buffers and of textures (indexing.glslh) *)

\* out_of_bounds(bufi, meta): bufi is not a linear index of the tensor
out_of_bounds(bufi, sizes) == bufi >= numel_of(sizes)

\* the logical coordinate of a linear index (inverse of row-major flattening)
linear_idx_to_tensor_idx(sizes, idx) ==
  <<idx % sizes[1],
    (idx \div sizes[1]) % sizes[2],
    (idx \div (sizes[1] * sizes[2])) % sizes[3],
    idx \div (sizes[1] * sizes[2] * sizes[3])>>

\* the linear index of a logical coordinate
tensor_idx_to_linear_idx(sizes, tidx) ==
  tidx[1] + sizes[1] * (tidx[2] + sizes[2] * (tidx[3] + sizes[3] * tidx[4]))

\* broadcast clamp: every dimension d becomes min(tidx[d], sizes[d] - 1)
clamp_tensor_idx(sizes, tidx) == [d \in 1..4 |-> Min(tidx[d], sizes[d] - 1)]

div_up_4(n) == (n + 3) \div 4

\* TextureMetadata limits: the extents of the image; batches are stacked along z
texture_limits(sizes, pd) ==
  <<IF pd = 1 THEN div_up_4(sizes[1]) ELSE sizes[1],
    IF pd = 2 THEN div_up_4(sizes[2]) ELSE sizes[2],
    (IF pd = 3 THEN div_up_4(sizes[3]) ELSE sizes[3]) * sizes[4]>>

\* out_of_bounds(pos, meta): any(greaterThanEqual(pos, meta.limits))
out_of_bounds_pos(pos, sizes, pd) ==
  \E d \in 1..3 : pos[d] >= texture_limits(sizes, pd)[d]

TexturePositions(sizes, pd) ==
  LET lim == texture_limits(sizes, pd)
  IN {<<x, y, z>> : x \in 0..(lim[1] - 1), y \in 0..(lim[2] - 1), z \in 0..(lim[3] - 1)}

\* the coordinate of component 0 of the texel at pos
texture_pos_to_tensor4d_idx_simple(sizes, pd, pos) ==
  LET scaled == [d \in 1..3 |-> IF d = pd THEN pos[d] * 4 ELSE pos[d]]
      channels == IF pd = 3 THEN align_up_4(sizes[3]) ELSE sizes[3]
  IN IF sizes[4] > 1
     THEN <<scaled[1], scaled[2], scaled[3] % channels, scaled[3] \div channels>>
     ELSE <<scaled[1], scaled[2], scaled[3], 0>>

\* the texel position and the component that hold a logical coordinate
tensor4d_idx_to_texture_element_idx_simple(sizes, pd, tidx) ==
  LET base == [d \in 1..3 |-> IF d = pd THEN tidx[d] \div 4 ELSE tidx[d]]
      channels == IF pd = 3 THEN div_up_4(sizes[3]) ELSE sizes[3]
  IN [pos |-> <<base[1], base[2],
                IF sizes[4] > 1 THEN base[3] + tidx[4] * channels ELSE base[3]>>,
      comp |-> tidx[pd] % 4]

\* the texture that holds the logical elements data; lanes beyond the
\* logical extent hold g
TextureOf(data, sizes, pd, g) ==
  [pos \in TexturePositions(sizes, pd) |->
     [k \in 1..4 |->
        LET t0 == texture_pos_to_tensor4d_idx_simple(sizes, pd, pos)
            t == [d \in 1..4 |-> IF d = pd THEN t0[d] + (k - 1) ELSE t0[d]]
        IN IF tidx_in_bounds(sizes, t)
           THEN data[tensor_idx_to_linear_idx(sizes, t)]
           ELSE g]]

-----------------------------------------------------------------------------
(* where.glsl *)

\* where_buffer_main with the two branches of the select exchanged
where_buffer_main_swapped(gid) ==
  LET out_bufi == gid[1]
      out_tidx == linear_idx_to_tensor_idx(out_sizes, out_bufi)
      cond == t_condition[tensor_idx_to_linear_idx(cond_sizes, clamp_tensor_idx(cond_sizes, out_tidx))]
      v_self == t_self[tensor_idx_to_linear_idx(self_sizes, clamp_tensor_idx(self_sizes, out_tidx))]
      v_other == t_other[tensor_idx_to_linear_idx(other_sizes, clamp_tensor_idx(other_sizes, out_tidx))]
  IN IF out_of_bounds(out_bufi, out_sizes)
     THEN {}
     ELSE IF cond > 0
          THEN {<<out_bufi, v_other>>}
          ELSE {<<out_bufi, v_self>>}

\* where_buffer_main with the bounds check off by one (> for >=)
where_buffer_main_offbyone(gid) ==
  LET out_bufi == gid[1]
      out_tidx == linear_idx_to_tensor_idx(out_sizes, out_bufi)
      cond == t_condition[tensor_idx_to_linear_idx(cond_sizes, clamp_tensor_idx(cond_sizes, out_tidx))]
      v_self == t_self[tensor_idx_to_linear_idx(self_sizes, clamp_tensor_idx(self_sizes, out_tidx))]
      v_other == t_other[tensor_idx_to_linear_idx(other_sizes, clamp_tensor_idx(other_sizes, out_tidx))]
  IN IF out_bufi > numel_of(out_sizes)
     THEN {}
     ELSE IF cond > 0
          THEN {<<out_bufi, v_self>>}
          ELSE {<<out_bufi, v_other>>}

\* USING_BUFFER main: the stores of invocation gid to t_out
where_buffer_main(gid) ==
  LET out_bufi == gid[1]
      out_tidx == linear_idx_to_tensor_idx(out_sizes, out_bufi)
      cond_tidx == clamp_tensor_idx(cond_sizes, out_tidx)
      self_tidx == clamp_tensor_idx(self_sizes, out_tidx)
      other_tidx == clamp_tensor_idx(other_sizes, out_tidx)
      cond_bufi == tensor_idx_to_linear_idx(cond_sizes, cond_tidx)
      self_bufi == tensor_idx_to_linear_idx(self_sizes, self_tidx)
      other_bufi == tensor_idx_to_linear_idx(other_sizes, other_tidx)
      cond == t_condition[cond_bufi]
      v_self == t_self[self_bufi]
      v_other == t_other[other_bufi]
  IN IF out_of_bounds(out_bufi, out_sizes)
     THEN {}
     ELSE IF cond > 0
          THEN {<<out_bufi, v_self>>}
          ELSE {<<out_bufi, v_other>>}

\* the addresses USING_BUFFER main loads
where_buffer_reads(gid) ==
  LET out_tidx == linear_idx_to_tensor_idx(out_sizes, gid[1])
  IN IF out_of_bounds(gid[1], out_sizes)
     THEN {}
     ELSE {<<"t_condition",
             tensor_idx_to_linear_idx(cond_sizes, clamp_tensor_idx(cond_sizes, out_tidx))>>,
           <<"t_self",
             tensor_idx_to_linear_idx(self_sizes, clamp_tensor_idx(self_sizes, out_tidx))>>,
           <<"t_other",
             tensor_idx_to_linear_idx(other_sizes, clamp_tensor_idx(other_sizes, out_tidx))>>}

\* the coordinate the loop holds in out_tidx at iteration comp
lane_tidx(out_tidx, comp) ==
  [d \in 1..4 |-> IF d = wpacked_dim THEN out_tidx[d] + comp ELSE out_tidx[d]]

\* where_texture_lane with the broadcast clamp taken once, at component 0, and
\* the component offset added to the clamped coordinate
where_texture_lane_clamp_once(out_tidx, comp) ==
  LET shifted(base) == [d \in 1..4 |-> IF d = wpacked_dim THEN base[d] + comp ELSE base[d]]
      cond_tidx == shifted([d \in 1..4 |-> Min(out_tidx[d], cond_sizes[d] - 1)])
      cond_elem == tensor4d_idx_to_texture_element_idx_simple(cond_sizes, wpacked_dim, cond_tidx)
      self_tidx == shifted([d \in 1..4 |-> Min(out_tidx[d], self_sizes[d] - 1)])
      self_elem == tensor4d_idx_to_texture_element_idx_simple(self_sizes, wpacked_dim, self_tidx)
      other_tidx == shifted([d \in 1..4 |-> Min(out_tidx[d], other_sizes[d] - 1)])
      other_elem == tensor4d_idx_to_texture_element_idx_simple(other_sizes, wpacked_dim, other_tidx)
  IN IF t_condition[cond_elem.pos][cond_elem.comp + 1] > 0
     THEN t_self[self_elem.pos][self_elem.comp + 1]
     ELSE t_other[other_elem.pos][other_elem.comp + 1]

\* one iteration of the USING_TEXTURE loop: the value stored in outtex[comp];
\* out_tidx is the coordinate of the texel's component 0
where_texture_lane(out_tidx, comp) ==
  LET cur == lane_tidx(out_tidx, comp)
      cond_tidx == [d \in 1..4 |-> Min(cur[d], cond_sizes[d] - 1)]
      cond_elem == tensor4d_idx_to_texture_element_idx_simple(cond_sizes, wpacked_dim, cond_tidx)
      cond_val == t_condition[cond_elem.pos][cond_elem.comp + 1]
      self_tidx == [d \in 1..4 |-> Min(cur[d], self_sizes[d] - 1)]
      self_elem == tensor4d_idx_to_texture_element_idx_simple(self_sizes, wpacked_dim, self_tidx)
      self_texel == t_self[self_elem.pos]
      other_tidx == [d \in 1..4 |-> Min(cur[d], other_sizes[d] - 1)]
      other_elem == tensor4d_idx_to_texture_element_idx_simple(other_sizes, wpacked_dim, other_tidx)
      other_texel == t_other[other_elem.pos]
  IN IF cond_val > 0
     THEN self_texel[self_elem.comp + 1]
     ELSE other_texel[other_elem.comp + 1]

\* USING_TEXTURE main: the stores of invocation gid (= out_pos) to t_out
where_texture_main(gid) ==
  LET out_tidx == texture_pos_to_tensor4d_idx_simple(out_sizes, wpacked_dim, gid)
      limit == Min(4, out_sizes[wpacked_dim] - out_tidx[wpacked_dim])
      outtex == [k \in 1..4 |->
                   IF k - 1 < limit THEN where_texture_lane(out_tidx, k - 1) ELSE 0]
  IN IF out_of_bounds_pos(gid, out_sizes, wpacked_dim)
     THEN {}
     ELSE {<<gid, outtex>>}

\* the texels USING_TEXTURE main fetches
where_texture_reads(gid) ==
  LET out_tidx == texture_pos_to_tensor4d_idx_simple(out_sizes, wpacked_dim, gid)
      limit == Min(4, out_sizes[wpacked_dim] - out_tidx[wpacked_dim])
      fetch(name, sizes, comp) ==
        <<name,
          tensor4d_idx_to_texture_element_idx_simple(
            sizes, wpacked_dim,
            clamp_tensor_idx(sizes, lane_tidx(out_tidx, comp))).pos>>
  IN IF out_of_bounds_pos(gid, out_sizes, wpacked_dim)
     THEN {}
     ELSE UNION {{fetch("t_condition", cond_sizes, comp),
                  fetch("t_self", self_sizes, comp),
                  fetch("t_other", other_sizes, comp)} :
                   comp \in {c \in 0..3 : c < limit}}

-----------------------------------------------------------------------------
(* The staging round trip as a state machine *)

\* a buffer of n int32 units, every byte g
Filled(n, g) == [a \in 0..(n - 1) |-> <<g, g, g, g>>]

\* staging buffers of a tensor with the given sizes: the logical bytes are
\* drawn from vals, the bytes of the last unit beyond numel hold g
StagingBuffers(sizes, vals, g) ==
  LET n == numel_of(sizes)
      units == (n + 3) \div 4
  IN {[a \in 0..(units - 1) |->
         [k \in 1..4 |-> IF a * 4 + (k - 1) < n THEN x[a * 4 + (k - 1)] ELSE g]] :
        x \in [0..(n - 1) -> vals]}

\* invocation ids of a dispatch whose global work group size is n: the grid
\* is rounded up, so ids beyond n exist
Grid(n) == 0..(n + OverProvision - 1)

NoAccess == [id \in Grid(0) |-> {}]

\* the staging bytes are drawn from one of the pairs
CodecInitWith(pairs) ==
  /\ inp_sizes \in Shapes
  /\ inp_layout \in Layouts
  /\ \E g \in Unwritten :
       /\ \E vals \in pairs : nchw_in \in StagingBuffers(inp_sizes, vals, g)
       /\ t_inp = Filled(padded_numel_of(inp_sizes, inp_layout) \div 4, g)
       /\ nchw_out = Filled((numel_of(inp_sizes) + 3) \div 4, g)
  /\ t_clean = t_inp
  /\ cphase = "upload"
  /\ cpending = {}
  /\ cwrites = NoAccess
  /\ creads = NoAccess

CodecInit == CodecInitWith(BytePairs)

\* the nchw_to_int8x4_buffer dispatch (prepack node or staging node): every
\* invocation of the grid stores its slot
UploadDispatch ==
  /\ cphase = "upload"
  /\ LET grid == staging_to_int8x4_buffer_global_wg_size(inp_sizes, inp_layout)
     IN t_inp' = [a \in DOMAIN t_inp |->
                    IF a < grid
                    THEN nchw_to_int8x4_buffer_main(nchw_in, inp_sizes, inp_layout, a)
                    ELSE t_inp[a]]
  /\ t_clean' = t_inp'
  /\ cphase' = "packed"
  /\ cpending' = Grid(int8x4_buffer_to_staging_global_wg_size(inp_sizes))
  /\ cwrites' = [id \in Grid(int8x4_buffer_to_staging_global_wg_size(inp_sizes)) |-> {}]
  /\ creads' = cwrites'
  /\ UNCHANGED <<inp_sizes, inp_layout, nchw_in, nchw_out>>
  /\ UNCHANGED <<whereVars, graphVars>>

\* another writer of the packed tensor leaves arbitrary bytes in the lanes
\* that hold no logical element
PaddingOverwritten ==
  /\ cphase = "packed"
  /\ LogicalLanes(inp_sizes, inp_layout) # 0..(padded_numel_of(inp_sizes, inp_layout) - 1)
  /\ \E g \in PadVals :
       t_inp' = [a \in DOMAIN t_inp |->
                   [k \in 1..4 |->
                      IF (a * 4 + (k - 1)) \in LogicalLanes(inp_sizes, inp_layout)
                      THEN t_inp[a][k]
                      ELSE g]]
  /\ cphase' = "padded"
  /\ UNCHANGED <<inp_sizes, inp_layout, nchw_in, t_clean, nchw_out, cpending,
                 cwrites, creads>>
  /\ UNCHANGED <<whereVars, graphVars>>

\* one invocation of the int8x4_buffer_to_nchw dispatch; the invocations of a
\* grid run in any order
DownloadInvocation(id) ==
  /\ cphase \in {"packed", "padded", "download"}
  /\ id \in cpending
  /\ LET writes == int8x4_buffer_to_nchw_main(t_inp, inp_sizes, inp_layout, id)
     IN /\ nchw_out' = Store(nchw_out, writes)
        /\ cwrites' = [cwrites EXCEPT ![id] = {<<"nchw_out", wr[1]>> : wr \in writes}]
  /\ creads' = [creads EXCEPT ![id] =
                  {<<"t_inp", a>> : a \in int8x4_buffer_to_nchw_reads(inp_sizes, inp_layout, id)}]
  /\ cpending' = cpending \ {id}
  /\ cphase' = IF cpending' = {} THEN "done" ELSE "download"
  /\ UNCHANGED <<inp_sizes, inp_layout, nchw_in, t_inp, t_clean>>
  /\ UNCHANGED <<whereVars, graphVars>>

CodecNext ==
  \/ UploadDispatch
  \/ PaddingOverwritten
  \/ \E id \in cpending : DownloadInvocation(id)

-----------------------------------------------------------------------------
(* One dispatch of the where kernel as a state machine *)

Ones == <<1, 1, 1, 1>>

\* shapes an operand is given for an output of shape out: the same shape,
\* broadcast in every dimension, broadcast in all but one dimension
OperandVariants(out) ==
  {out, Ones} \cup {[d \in 1..4 |-> IF d = k THEN out[d] ELSE 1] : k \in 1..4}

\* a shape that is not broadcast-compatible with out (about half of every extent)
Halved(out) == [d \in 1..4 |-> (out[d] + 1) \div 2]

\* <<cond_sizes, self_sizes, other_sizes>>: at most one operand differs from out
OperandShapes(out) ==
  {<<out, out, out>>, <<out, out, Halved(out)>>}
    \cup {<<v, out, out>> : v \in OperandVariants(out)}
    \cup {<<out, v, out>> : v \in OperandVariants(out)}
    \cup {<<out, out, v>> : v \in OperandVariants(out)}

\* contents of a condition tensor of n elements, by pattern: 1,0,1,0,... or
\* 1,0,2,1,0,2,...
CondPattern(p, n) ==
  [i \in 0..(n - 1) |->
     IF p = "1010" THEN (IF i % 2 = 0 THEN 1 ELSE 0)
     ELSE (IF i % 3 = 0 THEN 1 ELSE IF i % 3 = 1 THEN 0 ELSE 2)]

\* <<condition pattern, first element of self, first element of other>>: self
\* counts up by one, other is the multiples of its first element
DataCases == {<<"1010", 1, 10>>, <<"102", 5, 0>>}

\* the invocation ids of a where dispatch: default_pick_global_wg_size is
\* {numel, 1, 1} for a buffer and the image extents for a texture, and the grid
\* holds OverProvision more ids along x (buffer) or the packed axis (texture)
WhereGrid(storage, sizes, pd) ==
  IF storage = "buffer"
  THEN {<<x, 0, 0>> : x \in Grid(numel_of(sizes))}
  ELSE TexturePositions(sizes, pd)
         \cup {[d \in 1..3 |-> IF d = pd THEN texture_limits(sizes, pd)[d] + k ELSE 0] :
                 k \in 0..(OverProvision - 1)}

\* device storage of a tensor
StorageOf(storage, data, sizes, pd, g) ==
  IF storage = "buffer" THEN data ELSE TextureOf(data, sizes, pd, g)

\* the operand data are drawn from the cases
WhereInitWith(cases) ==
  /\ wstorage \in {"buffer", "texture"}
  /\ wpacked_dim \in (IF wstorage = "buffer" THEN {1} ELSE 1..3)
  /\ out_sizes \in Shapes
  /\ \E os \in OperandShapes(out_sizes) :
       /\ cond_sizes = os[1]
       /\ self_sizes = os[2]
       /\ other_sizes = os[3]
  /\ \E p \in cases :
       /\ cond_data = CondPattern(p[1], numel_of(cond_sizes))
       /\ self_data = [i \in 0..(numel_of(self_sizes) - 1) |-> p[2] + i]
       /\ other_data = [i \in 0..(numel_of(other_sizes) - 1) |-> p[3] * (i + 1)]
  /\ \E g \in Unwritten :
       /\ t_condition = StorageOf(wstorage, cond_data, cond_sizes, wpacked_dim, g)
       /\ t_self = StorageOf(wstorage, self_data, self_sizes, wpacked_dim, g)
       /\ t_other = StorageOf(wstorage, other_data, other_sizes, wpacked_dim, g)
       /\ t_out = StorageOf(wstorage, [i \in 0..(numel_of(out_sizes) - 1) |-> g],
                            out_sizes, wpacked_dim, g)
  /\ wphase = "dispatch"
  /\ wpending = WhereGrid(wstorage, out_sizes, wpacked_dim)
  /\ wwrites = [id \in wpending |-> {}]
  /\ wreads = [id \in wpending |-> {}]

WhereInit == WhereInitWith(DataCases)

whereConst == <<wstorage, wpacked_dim, out_sizes, cond_sizes, self_sizes, other_sizes,
                cond_data, self_data, other_data, t_condition, t_self, t_other>>

\* one invocation of the buffer variant; the invocations of a grid run in any
\* order
WhereBufferInvocation(id) ==
  /\ wphase = "dispatch"
  /\ wstorage = "buffer"
  /\ id \in wpending
  /\ t_out' = Store(t_out, where_buffer_main(id))
  /\ wwrites' = [wwrites EXCEPT ![id] = {<<"t_out", wr[1]>> : wr \in where_buffer_main(id)}]
  /\ wreads' = [wreads EXCEPT ![id] = where_buffer_reads(id)]
  /\ wpending' = wpending \ {id}
  /\ wphase' = IF wpending' = {} THEN "done" ELSE "dispatch"
  /\ UNCHANGED whereConst
  /\ UNCHANGED <<codecVars, graphVars>>

\* one invocation of the texture variant
WhereTextureInvocation(id) ==
  /\ wphase = "dispatch"
  /\ wstorage = "texture"
  /\ id \in wpending
  /\ t_out' = Store(t_out, where_texture_main(id))
  /\ wwrites' = [wwrites EXCEPT ![id] = {<<"t_out", wr[1]>> : wr \in where_texture_main(id)}]
  /\ wreads' = [wreads EXCEPT ![id] = where_texture_reads(id)]
  /\ wpending' = wpending \ {id}
  /\ wphase' = IF wpending' = {} THEN "done" ELSE "dispatch"
  /\ UNCHANGED whereConst
  /\ UNCHANGED <<codecVars, graphVars>>

WhereNext ==
  \/ \E id \in wpending : WhereBufferInvocation(id)
  \/ \E id \in wpending : WhereTextureInvocation(id)

\* the other state machines at rest
CodecIdle ==
  /\ inp_sizes = Ones
  /\ inp_layout = "4W"
  /\ nchw_in = <<>>
  /\ t_inp = <<>>
  /\ t_clean = <<>>
  /\ nchw_out = <<>>
  /\ cphase = "idle"
  /\ cpending = {}
  /\ cwrites = <<>>
  /\ creads = <<>>

WhereIdle ==
  /\ wstorage = "buffer"
  /\ wpacked_dim = 1
  /\ out_sizes = Ones
  /\ cond_sizes = Ones
  /\ self_sizes = Ones
  /\ other_sizes = Ones
  /\ cond_data = <<>>
  /\ self_data = <<>>
  /\ other_data = <<>>
  /\ t_condition = <<>>
  /\ t_self = <<>>
  /\ t_other = <<>>
  /\ t_out = <<>>
  /\ wphase = "idle"
  /\ wpending = {}
  /\ wwrites = <<>>
  /\ wreads = <<>>

\* no builder call has thrown
NoError == [fn |-> "none", tensor |-> 0]

GraphIdle ==
  /\ g_sizes = <<>>
  /\ prepack_nodes = <<>>
  /\ execute_nodes = <<>>
  /\ gerror = NoError
  /\ gphase = "off"
  /\ dirty = FALSE
  /\ cur_node = 0
  /\ nphase = "Idle"
  /\ did_resize = FALSE
  /\ prepack_log = <<>>
  /\ exec_log = <<>>
  /\ exec_started = FALSE
  /\ reexecuted = FALSE

vars == <<codecVars, whereVars, graphVars>>

WhereSpecInit ==
  /\ WhereInit
  /\ CodecIdle
  /\ GraphIdle

SpecWhere == WhereSpecInit /\ [][WhereNext]_vars

-----------------------------------------------------------------------------
(* The compute graph: tensors, builders (Int8x4Staging.cpp, Where.cpp) *)

\* The graph's values.  dtype and rank of a tensor are fixed when it is
\* declared: 1 is a packed int8 tensor of rank 4, 2 a packed int8 tensor of
\* rank 5, 3 the bool condition, 4..6 float tensors.
TensorTable ==
  <<[dtype |-> "kInt8x4", dim |-> 4],
    [dtype |-> "kInt8x4", dim |-> 5],
    [dtype |-> "kBool", dim |-> 1],
    [dtype |-> "kFloat", dim |-> 1],
    [dtype |-> "kFloat", dim |-> 1],
    [dtype |-> "kFloat", dim |-> 1]>>

ValueRefs == DOMAIN TensorTable

dtype_of(ref) == TensorTable[ref].dtype

dim_of(ref) == TensorTable[ref].dim

\* the value that holds staging or constant data
StagingRefs == {0}

\* tensors the staging builders are called with: valid, rank 5, wrong dtype
StagingOperands == {1, 2, 4}

\* <<cond, self, other, out>> the where builder is called with; the second
\* node reads the first one's output as self and writes the first one's other
WhereOperands == {<<3, 4, 5, 6>>, <<3, 6, 4, 5>>}

\* sizes the host gives an input tensor
InputShapes == {Ones, <<4, 1, 1, 1>>, <<2, 1, 1, 1>>}

InitialSizes ==
  <<<<2, 1, 3, 1>>, <<2, 1, 3, 1>>, Ones, <<4, 1, 1, 1>>, <<4, 1, 1, 1>>, <<2, 1, 1, 1>>>>

sizes_of(ref) == g_sizes[ref]

\* the id a node gets: nodes are numbered in the order they are created
NextNodeId == Len(prepack_nodes) + Len(execute_nodes) + 1

\* VK_CHECK_COND failed: the builder throws, nothing is appended
Throws(fn, tensor) ==
  /\ gerror' = [fn |-> fn, tensor |-> tensor]
  /\ UNCHANGED <<prepack_nodes, execute_nodes>>

\* add_prepack_int8x4_buffer_node without the rank check
add_prepack_int8x4_buffer_node_norank(tensor_data, tensor) ==
  IF ~(dtype_of(tensor) = "kInt8x4")
  THEN Throws("add_prepack_int8x4_buffer_node", tensor)
  ELSE /\ prepack_nodes' =
            Append(prepack_nodes,
                   [kernel |-> "nchw_to_int8x4_buffer",
                    id |-> NextNodeId,
                    global_wg_size |->
                      <<padded_numel_of(sizes_of(tensor), "4C") \div PackFactor, 1, 1>>,
                    data |-> tensor_data,
                    tensor |-> tensor])
       /\ gerror' = NoError
       /\ UNCHANGED execute_nodes

add_prepack_int8x4_buffer_node(tensor_data, tensor) ==
  IF ~(dtype_of(tensor) = "kInt8x4")
  THEN Throws("add_prepack_int8x4_buffer_node", tensor)
  ELSE IF ~(dim_of(tensor) <= MaxRank)
  THEN Throws("add_prepack_int8x4_buffer_node", tensor)
  ELSE /\ prepack_nodes' =
            Append(prepack_nodes,
                   [kernel |-> "nchw_to_int8x4_buffer",
                    id |-> NextNodeId,
                    global_wg_size |->
                      <<padded_numel_of(sizes_of(tensor), "4C") \div PackFactor, 1, 1>>,
                    data |-> tensor_data,
                    tensor |-> tensor])
       /\ gerror' = NoError
       /\ UNCHANGED execute_nodes

\* add_staging_to_int8x4_buffer_node putting the node at the front of the list
add_staging_to_int8x4_buffer_node_front(in_staging, tensor) ==
  IF ~(dtype_of(tensor) = "kInt8x4") \/ ~(dim_of(tensor) <= MaxRank)
  THEN Throws("add_staging_to_int8x4_buffer_node", tensor)
  ELSE /\ execute_nodes' =
            <<[kernel |-> "nchw_to_int8x4_buffer",
               id |-> NextNodeId,
               args |-> <<<<tensor>>, <<in_staging>>>>,
               resize |-> "nullptr"]>> \o execute_nodes
       /\ gerror' = NoError
       /\ UNCHANGED prepack_nodes

add_staging_to_int8x4_buffer_node(in_staging, tensor) ==
  IF ~(dtype_of(tensor) = "kInt8x4")
  THEN Throws("add_staging_to_int8x4_buffer_node", tensor)
  ELSE IF ~(dim_of(tensor) <= MaxRank)
  THEN Throws("add_staging_to_int8x4_buffer_node", tensor)
  ELSE /\ execute_nodes' =
            Append(execute_nodes,
                   [kernel |-> "nchw_to_int8x4_buffer",
                    id |-> NextNodeId,
                    args |-> <<<<tensor>>, <<in_staging>>>>,
                    resize |-> "nullptr"])
       /\ gerror' = NoError
       /\ UNCHANGED prepack_nodes

add_int8x4_buffer_to_staging_node(tensor, staging_data) ==
  IF ~(dtype_of(tensor) = "kInt8x4")
  THEN Throws("add_int8x4_buffer_to_staging_node", tensor)
  ELSE IF ~(dim_of(tensor) <= MaxRank)
  THEN Throws("add_int8x4_buffer_to_staging_node", tensor)
  ELSE /\ execute_nodes' =
            Append(execute_nodes,
                   [kernel |-> "int8x4_buffer_to_nchw",
                    id |-> NextNodeId,
                    args |-> <<<<staging_data>>, <<tensor>>>>,
                    resize |-> "nullptr"])
       /\ gerror' = NoError
       /\ UNCHANGED prepack_nodes

\* args.at(0) = {out, kWrite}, args.at(1) = {{cond, self, other}, kRead}
add_where_node(cond, self, other, out) ==
  /\ execute_nodes' =
       Append(execute_nodes,
              [kernel |-> "where",
               id |-> NextNodeId,
               args |-> <<<<out>>, <<cond, self, other>>>>,
               resize |-> "resize_where_node"])
  /\ gerror' = NoError
  /\ UNCHANGED prepack_nodes

\* graph->virtual_resize(ref, new_sizes): only the tensor's size metadata changes
virtual_resize(sizes, ref, new_sizes) == [sizes EXCEPT ![ref] = new_sizes]

\* resize_where_node taking the sizes of other (refs.at(2)) for those of self
resize_where_node_other(args) ==
  virtual_resize(g_sizes, args[1][1], sizes_of(args[2][3]))

\* resize_where_node resizing the condition operand as well
resize_where_node_cond(args) ==
  virtual_resize(virtual_resize(g_sizes, args[1][1], sizes_of(args[2][2])),
                 args[2][1], sizes_of(args[2][2]))

\* resize_where_node: the sizes of every tensor after the callback
resize_where_node(args) ==
  LET out == args[1][1]
      self == args[2][2]
      self_sizes_now == sizes_of(self)
  IN virtual_resize(g_sizes, out, self_sizes_now)

-----------------------------------------------------------------------------
(* The compute graph as a state machine: build, then execute and re-execute *)

GraphInit ==
  /\ g_sizes = InitialSizes
  /\ prepack_nodes = <<>>
  /\ execute_nodes = <<>>
  /\ gerror = NoError
  /\ gphase = "build"
  /\ dirty = FALSE
  /\ cur_node = 0
  /\ nphase = "Idle"
  /\ did_resize = FALSE
  /\ prepack_log = <<>>
  /\ exec_log = <<>>
  /\ exec_started = FALSE
  /\ reexecuted = FALSE

execState ==
  <<dirty, cur_node, nphase, did_resize, prepack_log, exec_log, exec_started, reexecuted>>

\* the graph holds fewer than MaxNodes nodes
NodeRoom == Len(prepack_nodes) + Len(execute_nodes) < MaxNodes

BuildPrepack ==
  /\ gphase = "build"
  /\ NodeRoom
  /\ \E data \in StagingRefs, tensor \in StagingOperands :
       /\ \A i \in 1..Len(prepack_nodes) : prepack_nodes[i].tensor # tensor
       /\ add_prepack_int8x4_buffer_node(data, tensor)
  /\ UNCHANGED <<g_sizes, gphase, execState>>
  /\ UNCHANGED <<codecVars, whereVars>>

BuildStagingToInt8x4 ==
  /\ gphase = "build"
  /\ NodeRoom
  /\ \E staging \in StagingRefs, tensor \in StagingOperands :
       /\ \A i \in 1..Len(execute_nodes) :
            execute_nodes[i].args # <<<<tensor>>, <<staging>>>>
       /\ add_staging_to_int8x4_buffer_node(staging, tensor)
  /\ UNCHANGED <<g_sizes, gphase, execState>>
  /\ UNCHANGED <<codecVars, whereVars>>

BuildInt8x4ToStaging ==
  /\ gphase = "build"
  /\ NodeRoom
  /\ \E staging \in StagingRefs, tensor \in StagingOperands :
       /\ \A i \in 1..Len(execute_nodes) :
            execute_nodes[i].args # <<<<staging>>, <<tensor>>>>
       /\ add_int8x4_buffer_to_staging_node(tensor, staging)
  /\ UNCHANGED <<g_sizes, gphase, execState>>
  /\ UNCHANGED <<codecVars, whereVars>>

\* where(graph, args): the registered operator aten.where.self
BuildWhere ==
  /\ gphase = "build"
  /\ NodeRoom
  /\ \E a \in WhereOperands :
       /\ \A i \in 1..Len(execute_nodes) :
            execute_nodes[i].args # <<<<a[4]>>, <<a[1], a[2], a[3]>>>>
       /\ add_where_node(a[1], a[2], a[3], a[4])
  /\ UNCHANGED <<g_sizes, gphase, execState>>
  /\ UNCHANGED <<codecVars, whereVars>>

\* the host has built the graph (an exception of a builder was handled)
FinishBuild ==
  /\ gphase = "build"
  /\ gphase' = "idle"
  /\ gerror' = NoError
  /\ UNCHANGED <<g_sizes, prepack_nodes, execute_nodes, execState>>
  /\ UNCHANGED <<codecVars, whereVars>>

WhereNodes == {i \in 1..Len(execute_nodes) : execute_nodes[i].kernel = "where"}

\* tensors some where node reads and no where node writes
GraphInputs ==
  {execute_nodes[i].args[2][k] : i \in WhereNodes, k \in 1..3}
    \ {execute_nodes[i].args[1][1] : i \in WhereNodes}

\* the host gives an input a new shape between two executions
ResizeInput ==
  /\ gphase = "idle"
  /\ \E ref \in GraphInputs, new_sizes \in InputShapes :
       /\ new_sizes # sizes_of(ref)
       /\ g_sizes' = virtual_resize(g_sizes, ref, new_sizes)
  /\ dirty' = TRUE
  /\ UNCHANGED <<prepack_nodes, execute_nodes, gerror, gphase, cur_node, nphase,
                 did_resize, prepack_log, exec_log, exec_started, reexecuted>>
  /\ UNCHANGED <<codecVars, whereVars>>

\* execute(): the first execution submits the prepack nodes, in list order,
\* before it looks at any execute node
ExecuteBegin ==
  /\ gphase = "idle"
  /\ gphase' = "executing"
  /\ prepack_log' =
       IF prepack_log = <<>>
       THEN [i \in 1..Len(prepack_nodes) |->
               [id |-> prepack_nodes[i].id, after_execute |-> exec_started]]
       ELSE prepack_log
  /\ cur_node' = 1
  /\ nphase' = "Idle"
  /\ did_resize' = FALSE
  /\ exec_log' = <<>>
  /\ reexecuted' = exec_started
  /\ UNCHANGED <<g_sizes, prepack_nodes, execute_nodes, gerror, dirty, exec_started>>
  /\ UNCHANGED <<codecVars, whereVars>>

\* the current node has a resize callback that must run before its dispatch
NeedsResize ==
  /\ dirty
  /\ execute_nodes[cur_node].resize = "resize_where_node"

\* trigger_resize: the node's resize callback runs on the host
NodeResize ==
  /\ gphase = "executing"
  /\ cur_node <= Len(execute_nodes)
  /\ nphase = "Idle"
  /\ NeedsResize
  /\ g_sizes' = resize_where_node(execute_nodes[cur_node].args)
  /\ nphase' = "Dispatchable"
  /\ did_resize' = TRUE
  /\ UNCHANGED <<prepack_nodes, execute_nodes, gerror, gphase, dirty, cur_node,
                 prepack_log, exec_log, exec_started, reexecuted>>
  /\ UNCHANGED <<codecVars, whereVars>>

\* the node's dispatch is submitted to the queue
NodeDispatch ==
  /\ gphase = "executing"
  /\ cur_node <= Len(execute_nodes)
  /\ \/ nphase = "Dispatchable"
     \/ nphase = "Idle" /\ ~NeedsResize
  /\ exec_log' = Append(exec_log, execute_nodes[cur_node].id)
  /\ exec_started' = TRUE
  /\ nphase' = "Submitted"
  /\ UNCHANGED <<g_sizes, prepack_nodes, execute_nodes, gerror, gphase, dirty, cur_node,
                 did_resize, prepack_log, reexecuted>>
  /\ UNCHANGED <<codecVars, whereVars>>

\* the next node of the list
NodeDone ==
  /\ gphase = "executing"
  /\ nphase = "Submitted"
  /\ cur_node' = cur_node + 1
  /\ nphase' = "Idle"
  /\ did_resize' = FALSE
  /\ UNCHANGED <<g_sizes, prepack_nodes, execute_nodes, gerror, gphase, dirty,
                 prepack_log, exec_log, exec_started, reexecuted>>
  /\ UNCHANGED <<codecVars, whereVars>>

\* every execute node was submitted: the execution is over
ExecuteEnd ==
  /\ gphase = "executing"
  /\ cur_node > Len(execute_nodes)
  /\ gphase' = "idle"
  /\ dirty' = FALSE
  /\ cur_node' = 0
  /\ UNCHANGED <<g_sizes, prepack_nodes, execute_nodes, gerror, nphase, did_resize,
                 prepack_log, exec_log, exec_started, reexecuted>>
  /\ UNCHANGED <<codecVars, whereVars>>

GraphNext ==
  \/ BuildPrepack
  \/ BuildStagingToInt8x4
  \/ BuildInt8x4ToStaging
  \/ BuildWhere
  \/ FinishBuild
  \/ ResizeInput
  \/ ExecuteBegin
  \/ NodeResize
  \/ NodeDispatch
  \/ NodeDone
  \/ ExecuteEnd

GraphSpecInit ==
  /\ GraphInit
  /\ CodecIdle
  /\ WhereIdle

SpecGraph == GraphSpecInit /\ [][GraphNext]_vars

-----------------------------------------------------------------------------
(* Claims about the staging round trip *)

CodecSpecInit ==
  /\ CodecInit
  /\ WhereIdle
  /\ GraphIdle

SpecCodec == CodecSpecInit /\ [][CodecNext]_vars

\* the staging buffer a complete download dispatch leaves, from a packed buffer
DownloadAll(buf, sizes, layout, before) ==
  Store(before,
        UNION {int8x4_buffer_to_nchw_main(buf, sizes, layout, id) :
                 id \in Grid(int8x4_buffer_to_staging_global_wg_size(sizes))})

\* two packed buffers agree on every lane that holds a logical element
AgreeOnLogicalLanes(b1, b2, sizes, layout) ==
  \A e \in LogicalLanes(sizes, layout) : ByteAt(b1, e) = ByteAt(b2, e)

\* C1: upload then download returns the staging bytes: once the download
\* dispatch is complete, each of the first numel bytes of nchw_out equals the
\* byte of nchw_in at the same index, for every shape of rank <= 4, numel not
\* a multiple of 4 included, and bytes with the high bit set included.
C1_RoundTrip ==
  cphase = "done" =>
    \A k \in 0..(numel_of(inp_sizes) - 1) : ByteAt(nchw_out, k) = ByteAt(nchw_in, k)

\* a completed round trip of 5 elements (two staging units, the second
\* partial) that holds a byte with the high bit set in the last lane of a unit
C1_Witness ==
  /\ cphase = "done"
  /\ numel_of(inp_sizes) = 5
  /\ ByteAt(nchw_in, 3) >= 128
  /\ ByteAt(nchw_in, 4) = 1
  /\ ByteAt(nchw_out, 3) = ByteAt(nchw_in, 3)

\* C6: the download reads no padding lane: when the packed buffer agrees with
\* the buffer the upload left on every logical lane and differs in padding
\* lanes, the completed download equals the download of the upload's buffer.
C6_PaddingSafety ==
  (cphase = "done" /\ AgreeOnLogicalLanes(t_inp, t_clean, inp_sizes, inp_layout)) =>
    nchw_out = DownloadAll(t_clean, inp_sizes, inp_layout, nchw_out)

\* a completed download of a buffer whose padding lanes were overwritten
C6_Witness ==
  /\ cphase = "done"
  /\ t_inp # t_clean
  /\ AgreeOnLogicalLanes(t_inp, t_clean, inp_sizes, inp_layout)
  /\ numel_of(inp_sizes) > 1

-----------------------------------------------------------------------------
(* Claims about the where kernel *)

\* the logical element of a tensor at coordinate t clamped into the tensor
BroadcastAt(data, sizes, t) ==
  LET c == [d \in 1..4 |-> IF t[d] < sizes[d] THEN t[d] ELSE sizes[d] - 1]
  IN data[c[1] + sizes[1] * (c[2] + sizes[2] * (c[3] + sizes[3] * c[4]))]

\* the where-select result for the logical output coordinate t
WhereSelect(t) ==
  IF BroadcastAt(cond_data, cond_sizes, t) # 0
  THEN BroadcastAt(self_data, self_sizes, t)
  ELSE BroadcastAt(other_data, other_sizes, t)

\* a tensor of shape [4] with the given elements
Vec4Is(data, sizes, e0, e1, e2, e3) ==
  /\ sizes = <<4, 1, 1, 1>>
  /\ data = [i \in 0..3 |-> <<e0, e1, e2, e3>>[i + 1]]

\* C2: after a dispatch of the buffer variant every in-bounds linear index i
\* of out, with coordinate t, holds self at clamp(self, t) when condition at
\* clamp(condition, t) is non-zero and other at clamp(other, t) otherwise; in
\* particular self=[1,2,3,4], other=[10,20,30,40], condition=[1,0,1,0] gives
\* [1,20,3,40], and condition of shape [1] with value 1 selects self at all 4
\* elements.
C2_BufferWhere ==
  (wstorage = "buffer" /\ wphase = "done") =>
    /\ \A i \in 0..(numel_of(out_sizes) - 1) :
         t_out[i] = WhereSelect(<<i % out_sizes[1],
                                  (i \div out_sizes[1]) % out_sizes[2],
                                  (i \div (out_sizes[1] * out_sizes[2])) % out_sizes[3],
                                  i \div (out_sizes[1] * out_sizes[2] * out_sizes[3])>>)
    /\ (/\ Vec4Is(self_data, self_sizes, 1, 2, 3, 4)
        /\ Vec4Is(other_data, other_sizes, 10, 20, 30, 40)
        /\ Vec4Is(cond_data, cond_sizes, 1, 0, 1, 0)
        /\ out_sizes = <<4, 1, 1, 1>>)
         => t_out = [i \in 0..3 |-> <<1, 20, 3, 40>>[i + 1]]
    /\ (/\ Vec4Is(self_data, self_sizes, 5, 6, 7, 8)
        /\ Vec4Is(other_data, other_sizes, 0, 0, 0, 0)
        /\ cond_sizes = Ones
        /\ cond_data[0] = 1
        /\ out_sizes = <<4, 1, 1, 1>>)
         => t_out = [i \in 0..3 |-> <<5, 6, 7, 8>>[i + 1]]

\* a completed buffer dispatch of the scenario with condition of shape [1]
C2_Witness ==
  /\ wstorage = "buffer"
  /\ wphase = "done"
  /\ Vec4Is(self_data, self_sizes, 5, 6, 7, 8)
  /\ Vec4Is(other_data, other_sizes, 0, 0, 0, 0)
  /\ cond_sizes = Ones
  /\ cond_data[0] = 1
  /\ t_out = [i \in 0..3 |-> <<5, 6, 7, 8>>[i + 1]]

\* C8: after a dispatch of the texture variant, for every in-bounds texel of
\* out with base coordinate t and limit = min(4, size_out[packed_dim] -
\* t[packed_dim]), lane comp < limit holds the where-select result for t with
\* its packed coordinate increased by comp (each operand clamped for that
\* lane's coordinate), and every lane comp >= limit holds 0.
C8_TextureLanes ==
  (wstorage = "texture" /\ wphase = "done") =>
    \A pos \in TexturePositions(out_sizes, wpacked_dim) :
      LET t == texture_pos_to_tensor4d_idx_simple(out_sizes, wpacked_dim, pos)
          limit == Min(4, out_sizes[wpacked_dim] - t[wpacked_dim])
      IN \A comp \in 0..3 :
           t_out[pos][comp + 1] =
             IF comp < limit
             THEN WhereSelect([d \in 1..4 |-> IF d = wpacked_dim THEN t[d] + comp ELSE t[d]])
             ELSE 0

\* a completed texture dispatch whose output has 5 elements along the packed
\* dimension (a full texel and one of limit 1) and whose condition is
\* broadcast along it
C8_Witness ==
  /\ wstorage = "texture"
  /\ wphase = "done"
  /\ out_sizes[wpacked_dim] = 5
  /\ cond_sizes[wpacked_dim] = 1
  /\ self_sizes = out_sizes
  /\ \E pos \in TexturePositions(out_sizes, wpacked_dim) :
       /\ t_out[pos][1] # 0
       /\ t_out[pos][2] = 0

-----------------------------------------------------------------------------
(* Claims about the invocations of one dispatch *)

KernelsInit ==
  /\ GraphIdle
  /\ \/ CodecInitWith({{0, 255}}) /\ WhereIdle
     \/ WhereInitWith({<<"1010", 1, 10>>}) /\ CodecIdle

KernelsNext ==
  \/ CodecNext
  \/ WhereNext

\* either kernel family, one dispatch at a time
SpecKernels == KernelsInit /\ [][KernelsNext]_vars

\* the invocation id is inside the output of the where dispatch
WhereIdInBounds(id) ==
  IF wstorage = "buffer"
  THEN id[1] < numel_of(out_sizes)
  ELSE id \in TexturePositions(out_sizes, wpacked_dim)

\* the output address that belongs to a where invocation
WhereOwnAddress(id) == IF wstorage = "buffer" THEN id[1] ELSE id

\* C9: in one dispatch of the where kernel (buffer or texture) or of
\* int8x4_buffer_to_nchw, every invocation that has run wrote exactly the
\* output address indexed by its own id when the id is in bounds and nothing
\* when it is out of bounds, no invocation read an address that an invocation
\* of the dispatch wrote, and the completed output is the one value that the
\* invocations' stores determine, whatever order they ran in.
C9_DisjointWrites ==
  /\ wphase \in {"dispatch", "done"} =>
       /\ \A id \in (DOMAIN wwrites) \ wpending :
            /\ WhereIdInBounds(id) => wwrites[id] = {<<"t_out", WhereOwnAddress(id)>>}
            /\ ~WhereIdInBounds(id) => wwrites[id] = {}
            /\ \A other \in DOMAIN wwrites : wreads[id] \cap wwrites[other] = {}
       /\ \A id \in wpending : wwrites[id] = {}
       /\ wphase = "done" =>
            \A a \in DOMAIN t_out :
              \E id \in DOMAIN wwrites :
                /\ WhereOwnAddress(id) = a
                /\ IF wstorage = "buffer"
                   THEN where_buffer_main(id) = {<<a, t_out[a]>>}
                   ELSE where_texture_main(id) = {<<a, t_out[a]>>}
  /\ cphase \in {"packed", "padded", "download", "done"} =>
       /\ \A id \in (DOMAIN cwrites) \ cpending :
            /\ id * 4 < numel_of(inp_sizes) => cwrites[id] = {<<"nchw_out", id>>}
            /\ id * 4 >= numel_of(inp_sizes) => cwrites[id] = {}
            /\ \A other \in DOMAIN cwrites : creads[id] \cap cwrites[other] = {}
       /\ \A id \in cpending : cwrites[id] = {}
       /\ cphase = "done" =>
            \A a \in DOMAIN nchw_out :
              int8x4_buffer_to_nchw_main(t_inp, inp_sizes, inp_layout, a) = {<<a, nchw_out[a]>>}

\* a dispatch in which an out-of-bounds invocation ran before an in-bounds one
\* (where), and a completed dispatch in which the last address was written
\* first (download)
C9_Witness ==
  \/ /\ wphase = "dispatch"
     /\ \E id \in (DOMAIN wwrites) \ wpending : ~WhereIdInBounds(id)
     /\ \E id \in wpending : WhereIdInBounds(id)
     /\ \E id \in (DOMAIN wwrites) \ wpending : wwrites[id] # {}
  \/ /\ cphase = "download"
     /\ 0 \in cpending
     /\ cwrites[1] = {<<"nchw_out", 1>>}

-----------------------------------------------------------------------------
(* Claims about the graph: builders, schedule and resize *)

\* the node execute() is at, and the tensors it is bound to
CurNode == execute_nodes[cur_node]

CurOut == CurNode.args[1][1]

CurCond == CurNode.args[2][1]

CurSelf == CurNode.args[2][2]

CurOther == CurNode.args[2][3]

\* the resize callback of the current node has run in this execution
AfterResize ==
  /\ gphase = "executing"
  /\ did_resize
  /\ nphase \in {"Dispatchable", "Submitted"}

\* C3: once resize_where_node has run for a where node, the sizes of its
\* output equal the sizes of its self operand, whatever the sizes of out were
\* before and whatever the sizes of condition, self and other are, in every
\* execution of a sequence in which the host reshapes inputs between executions.
C3_ShapeDrive ==
  AfterResize => sizes_of(CurOut) = sizes_of(CurSelf)

\* a re-execution resized an output away from the shape it was built with
C3_Witness ==
  /\ AfterResize
  /\ reexecuted
  /\ nphase = "Dispatchable"
  /\ sizes_of(CurOut) = sizes_of(CurSelf)
  /\ sizes_of(CurOut) # InitialSizes[CurOut]
  /\ sizes_of(CurOther) # sizes_of(CurSelf)

\* the tensor does not pass the checks of the int8x4 staging builders
Rejected(tensor) == dtype_of(tensor) # "kInt8x4" \/ dim_of(tensor) > MaxRank

\* tensors of the submissions recorded so far
SubmittedTensors ==
  {prepack_nodes[i].tensor : i \in {k \in 1..Len(prepack_nodes) : prepack_log # <<>>}}
    \cup {execute_nodes[i].args[1][1] :
            i \in {k \in 1..Len(execute_nodes) :
                     /\ execute_nodes[k].kernel = "nchw_to_int8x4_buffer"
                     /\ \E l \in 1..Len(exec_log) : exec_log[l] = execute_nodes[k].id}}
    \cup {execute_nodes[i].args[2][1] :
            i \in {k \in 1..Len(execute_nodes) :
                     /\ execute_nodes[k].kernel = "int8x4_buffer_to_nchw"
                     /\ \E l \in 1..Len(exec_log) : exec_log[l] = execute_nodes[k].id}}

\* the lists are what they were and the caller got the exception
Rejection(fn, tensor) ==
  /\ prepack_nodes' = prepack_nodes
  /\ execute_nodes' = execute_nodes
  /\ gerror' = [fn |-> fn, tensor |-> tensor]

\* C4: a call of add_prepack_int8x4_buffer_node,
\* add_staging_to_int8x4_buffer_node or add_int8x4_buffer_to_staging_node with
\* a tensor whose dtype is not kInt8x4 or whose rank exceeds 4 throws and
\* leaves the prepack-node list and the execute-node list as they were, and no
\* submission is ever recorded for such a tensor.
C4_Rejection ==
  /\ [](\A tensor \in SubmittedTensors : ~Rejected(tensor))
  /\ [][\A tensor \in {t \in StagingOperands : Rejected(t)}, staging \in StagingRefs :
          /\ add_prepack_int8x4_buffer_node(staging, tensor)
               => Rejection("add_prepack_int8x4_buffer_node", tensor)
          /\ add_staging_to_int8x4_buffer_node(staging, tensor)
               => Rejection("add_staging_to_int8x4_buffer_node", tensor)
          /\ add_int8x4_buffer_to_staging_node(tensor, staging)
               => Rejection("add_int8x4_buffer_to_staging_node", tensor)]_vars

\* a rank-5 kInt8x4 tensor was rejected by a graph that already holds nodes
C4_Witness ==
  /\ gphase = "build"
  /\ gerror.fn = "add_prepack_int8x4_buffer_node"
  /\ dtype_of(gerror.tensor) = "kInt8x4"
  /\ dim_of(gerror.tensor) > MaxRank
  /\ Len(prepack_nodes) = 1
  /\ Len(execute_nodes) = 1

\* ids of the nodes of a list, in list order
IdsOf(nodes) == [i \in 1..Len(nodes) |-> nodes[i].id]

IsPrefix(s, t) ==
  /\ Len(s) <= Len(t)
  /\ \A i \in 1..Len(s) : s[i] = t[i]

\* C5: every prepack node is submitted exactly once, before the first execute
\* node is submitted, and in each execution the execute nodes are submitted in
\* the order in which the builders appended them.
C5_ScheduleOrder ==
  /\ prepack_log # <<>> =>
       /\ Len(prepack_log) = Len(prepack_nodes)
       /\ \A i \in 1..Len(prepack_log) :
            /\ prepack_log[i].id = prepack_nodes[i].id
            /\ ~prepack_log[i].after_execute
  /\ exec_started => (prepack_nodes = <<>> \/ prepack_log # <<>>)
  /\ IsPrefix(exec_log, IdsOf(execute_nodes))
  /\ \A i, j \in 1..Len(exec_log) : i < j => exec_log[i] < exec_log[j]
  /\ (gphase = "idle" /\ exec_started) => exec_log = IdsOf(execute_nodes)

\* a second execution has submitted two execute nodes after one prepack node
C5_Witness ==
  /\ reexecuted
  /\ gphase = "executing"
  /\ Len(prepack_log) = 1
  /\ Len(exec_log) = 2
  /\ execute_nodes[1].kernel # execute_nodes[2].kernel

\* a dimension of the operand is neither 1 nor that of self
Incompatible(operand, self) ==
  \E d \in 1..4 : sizes_of(operand)[d] \notin {1, sizes_of(self)[d]}

\* C7: when condition or other is not broadcast-compatible with the output
\* shape, the resize detects it and the kernel is not dispatched in that
\* execution.
C7_MismatchDetected ==
  (AfterResize /\ (Incompatible(CurCond, CurSelf) \/ Incompatible(CurOther, CurSelf)))
    => nphase # "Submitted"

\* C10: a step of resize_where_node changes the sizes of the node's output
\* only; the sizes of condition, self and other, the sizes of every other
\* tensor, and both node lists with every node's bindings stay as they were.
C10_ResizeFrame ==
  [][(gphase = "executing" /\ nphase = "Idle" /\ nphase' = "Dispatchable") =>
       /\ \A ref \in ValueRefs \ {CurOut} : g_sizes'[ref] = g_sizes[ref]
       /\ prepack_nodes' = prepack_nodes
       /\ execute_nodes' = execute_nodes]_vars

\* the resize of the second of two where nodes gave its output a new shape
C10_Witness ==
  /\ AfterResize
  /\ cur_node = 2
  /\ execute_nodes[1].kernel = "where"
  /\ sizes_of(CurOut) # InitialSizes[CurOut]
  /\ sizes_of(CurCond) # sizes_of(CurOut)

-----------------------------------------------------------------------------
(* Claims about the dispatch grids of the staging kernels *)

\* the t_inp slots the download invocations that ran have loaded
SlotsRead == {rd[2] : rd \in UNION {creads[id] : id \in DOMAIN creads}}

\* C11: the download grid is the kernel's own bound ceil(numel / 4): the
\* invocations that store are exactly those below it; every slot the download
\* reads for a logical element lies below padded_numel / 4, the size of the
\* upload grid, and was written by the upload; numel <= padded_numel and
\* padded_numel is a multiple of 4.
C11_GridsCover ==
  LET numel == numel_of(inp_sizes)
      padded_numel == padded_numel_of(inp_sizes, inp_layout)
      upload_grid == staging_to_int8x4_buffer_global_wg_size(inp_sizes, inp_layout)
      download_grid == int8x4_buffer_to_staging_global_wg_size(inp_sizes)
  IN cphase # "idle" =>
       /\ download_grid * 4 >= numel
       /\ (download_grid - 1) * 4 < numel
       /\ \A id \in Grid(download_grid) :
            (id < download_grid)
              <=> (int8x4_buffer_to_nchw_main(t_inp, inp_sizes, inp_layout, id) # {})
       /\ upload_grid * 4 = padded_numel
       /\ \A e \in 0..(numel - 1) : unpack_slot(inp_sizes, inp_layout, e) < upload_grid
       /\ \A a \in SlotsRead :
            /\ a < upload_grid
            /\ \A g \in Unwritten : t_clean[a] # <<g, g, g, g>>
       /\ numel <= padded_numel
       /\ padded_numel % 4 = 0

\* a complete download of a tensor whose packed dimension is padded, in which
\* a slot beyond numel / 4 was read
C11_Witness ==
  /\ cphase = "done"
  /\ numel_of(inp_sizes) % 4 # 0
  /\ padded_numel_of(inp_sizes, inp_layout) > numel_of(inp_sizes) + 3
  /\ \E a \in SlotsRead : a > numel_of(inp_sizes) \div 4

=============================================================================
